---------------------------- MODULE Spec2Model ----------------------------
(***************************************************************************)
(* The training / evaluation orchestration loop of src/main.py: train(),   *)
(* its nested train_loop() and test_loop(), and the multi-replica entry    *)
(* train_on_tpu().                                                         *)
(*                                                                         *)
(* A replica is one execution of train().  In single-device mode there is  *)
(* one (rank 0); in multi-replica mode xmp.spawn forks num_cores of them.  *)
(* Replicas share nothing but the external sinks: the tensorboard log      *)
(* directory runs/{model_name} and the files models/... and images/...     *)
(*                                                                         *)
(* Abstractions.  A loss is either finite or non-finite (NaN/Inf); a       *)
(* running loss sum is kept as the number of examples whose losses were    *)
(* added to it plus a flag telling whether it is still finite.  A          *)
(* bits-per-dimension value is kept as its numerator and the factors of    *)
(* its denominator; the constant positive factor ln 2 is left out.         *)
(***************************************************************************)
EXTENDS Integers, Sequences, FiniteSets

\* ------------------------------------------------------------------ bounds
MaxEpochs == 2
MaxTrainLen == 4
MaxTestLen == 3
MaxPrintEvery == 2
MaxSaveInterval == 2
InputDims == 3

\* the batch sizes explored (config.batch_size, config.test_batch_size)
BatchSizes == {1, 2}

\* number of replicas forked in multi-replica mode (config.num_cores)
num_cores == 2

Min(a, b) == IF a < b THEN a ELSE b

\* Python's a % b for b # 0 (the result takes the sign of the divisor).
PyMod(a, b) == IF b > 0 THEN a % b ELSE 0 - ((0 - a) % (0 - b))

VARIABLES
    config,      \* the settings bundle, fixed for the run
    data,        \* the datasets: the number of examples of each, and whether
                 \* loss_function stays finite on them
    pc,          \* pc[r]: position of replica r in train()
    epoch,       \* epoch[r]: loop variable of "for epoch in range(max_epochs)"
    batch_idx,   \* batch_idx[r]: number of batches the current pass has taken
    writes,      \* writes[r]: the write index
    new_writes,  \* new_writes[r]: flushes of the current training pass
    train_loss,  \* train_loss[r]: accumulator of train_loop
    test_loss,   \* test_loss[r]: accumulator of test_loop
    training,    \* training[r]: the model is in training mode
    err,         \* err[r]: the exception that ended replica r, or "none"
    scalars,     \* scalars[r]: the add_scalar calls of replica r's writer, in order
    files,       \* the checkpoint/sample sink: the file writes performed
    hist,        \* hist[r]: history of replica r (passes, steps, flushes)
    nans         \* a non-finite loss has been produced

vars == <<config, data, pc, epoch, batch_idx, writes, new_writes, train_loss,
          test_loss, training, err, scalars, files, hist, nans>>

\* ------------------------------------------------------------ configuration
\* Learning rates, in units of 1e-6; model depths (nr_resnet).
LearningRates == {11, 12, 20}
Depths == {1, 2}

\* The configurations with learning rate in lrs and nr_resnet in depths.
ConfigsOver(lrs, depths) ==
    [use_tpu : BOOLEAN,
     max_epochs : 0..MaxEpochs,
     save_interval : 0..MaxSaveInterval,
     print_every : 0..MaxPrintEvery,
     batch_size : BatchSizes,
     test_batch_size : BatchSizes,
     lr : lrs,
     nr_resnet : depths,
     nr_filters : {1},
     nr_logistic_mix : {1}]

\* The configurations a run is followed from: the model-shaping fields, which
\* no branch of train() reads, are fixed.
Configs == ConfigsOver({11}, {1})

\* The configurations of any run writing into the same directories.
RunConfigs == ConfigsOver(LearningRates, Depths)

\* '{:.5f}'.format(lr): lr rounded to five decimals, in units of 1e-5.
Format5f(lr) == (lr + 5) \div 10

\* Line 31: model_name, the text 'pcnnpp' followed by four formatted fields
\* of the configuration.
model_name(c) == <<"pcnnpp", Format5f(c.lr), c.nr_resnet, c.nr_filters, c.nr_logistic_mix>>

\* Lines 144 and 150: 'models/{}_{}.pth' / 'images/{}_{}.png' formatted with
\* model_name and the epoch.
ArtifactPath(c, kind, e) == <<kind, model_name(c), e>>

Datasets ==
    [train_len : 0..MaxTrainLen,
     test_len : 0..MaxTestLen,
     finite_losses : BOOLEAN]

\* The replicas that run train(): ranks 0..num_cores-1 under xmp.spawn, the
\* calling process alone otherwise.
Replicas == IF config.use_tpu THEN 0..(num_cores - 1) ELSE {0}

xrt_world_size == num_cores

\* ------------------------------------------------------------- data loaders
\* A dataset of n examples is the index sequence 0, 1, ..., n-1.
Indices(n) == [i \in 1..n |-> i - 1]

\* shuffle=True: the permutation of 0..n-1 fixed by the sampler's seed, the
\* same in every replica and every epoch (set_epoch is never called).  It is
\* taken to put the even indices before the odd ones.
Shuffled(n) == [i \in 1..n |-> IF i <= (n + 1) \div 2 THEN 2 * (i - 1) ELSE 2 * (i - (n + 1) \div 2) - 1]

\* torch DistributedSampler(dataset, num_replicas, rank, shuffle=True) over a
\* dataset of n examples: ceil(n / num_replicas) indices per replica, the
\* shuffled list padded with its own head to a multiple of num_replicas,
\* then every num_replicas-th index starting at rank.
DistributedSampler(n, num_replicas, rank) == LET num_samples == (n + num_replicas - 1) \div num_replicas IN LET padded == [i \in 1..(num_samples * num_replicas) |-> Shuffled(n)[((i - 1) % n) + 1]] IN [j \in 1..num_samples |-> padded[rank + (j - 1) * num_replicas + 1]]

\* A loader over the index sequence idx: consecutive batches of bs indices,
\* the last one shorter when bs does not divide Len(idx).
Batches(idx, bs) == [b \in 1..((Len(idx) + bs - 1) \div bs) |-> SubSeq(idx, (b - 1) * bs + 1, Min(b * bs, Len(idx)))]

\* Line 46-51: the training sampler of replica r.
train_sampler(r) == DistributedSampler(data.train_len, xrt_world_size, r)

\* Lines 52-57: the test sampler of replica r; it is built over dataset_train.
test_sampler(r) == DistributedSampler(data.train_len, xrt_world_size, r)

\* Line 59: the batches replica r's training pass iterates.
train_loader(r) == IF config.use_tpu THEN Batches(train_sampler(r), config.batch_size) ELSE Batches(Indices(data.train_len), config.batch_size)

\* Lines 60-61: the batches replica r's evaluation pass iterates; each index
\* is looked up in dataset_test.
test_loader(r) == IF config.use_tpu THEN Batches(test_sampler(r), config.test_batch_size) ELSE Batches(Indices(data.test_len), config.test_batch_size)

\* An index batch can be fetched from dataset_test iff all its indices exist.
Loadable(batch) == \A k \in 1..Len(batch) : batch[k] < data.test_len

\* --------------------------------------------------------------- metrics
\* A running loss sum: examples added since it was last zeroed, and whether
\* it is still finite.
ZeroLoss == [examples |-> 0, finite |-> TRUE]

\* "train_loss += loss" / "test_loss += loss" for a batch of n examples.
AddLoss(acc, n, finite) == [examples |-> acc.examples + n, finite |-> acc.finite /\ finite]

\* Line 106: the example-count factor of a training flush's denominator.
TrainDenoExamples(print_every, batch_size) == print_every * batch_size

\* Line 134: the example-count factor of the evaluation denominator, from
\* the last value of batch_idx (the number of batches taken, minus one).
TestDenoExamples(taken, batch_size) == (taken - 1) * batch_size

\* loss_sum / deno as logged: numerator, and the factors of the denominator.
Bpd(acc, deno_examples) == [loss |-> acc, examples |-> deno_examples, dims |-> InputDims]

\* A bits-per-dimension value is finite iff its numerator is and its
\* denominator is not zero.
IsFinite(bpd) == bpd.loss.finite /\ bpd.examples * bpd.dims # 0

\* A faulty loop bound: one epoch too many.
MutInRange(e, max_epochs) == e <= max_epochs

\* Line 155: epoch e is one of range(max_epochs).
InRange(e, max_epochs) == e < max_epochs

\* A faulty trigger: it tests the epoch index instead of the epoch number.
MutSaveDue(e, save_interval) == PyMod(e, save_interval) = 0

\* Line 143: the checkpoint trigger (save_interval # 0).
SaveDue(e, save_interval) == PyMod(e + 1, save_interval) = 0

\* A faulty trigger: it tests the batch index instead of the batch count.
MutFlushDue(idx, print_every) == PyMod(idx, print_every) = 0

\* Line 105: the flush trigger (print_every # 0).
FlushDue(idx, print_every) == PyMod(idx + 1, print_every) = 0

\* A faulty flush: every flush of a pass is logged at the pass's first index.
MutFlushStep(w, nw) == w

\* Line 108: the write index of a training flush, writes + new_writes.
FlushStep(w, nw) == w + nw

\* A faulty update: the flushes of the pass are never added.
MutWritesAfterTrain(use_tpu, w, nw) == w

\* Lines 162-163 against line 159: the write index after a training pass.
WritesAfterTrain(use_tpu, w, nw) == IF use_tpu THEN w ELSE w + nw

\* A faulty train_loop: the model is left in the mode it was in.
MutModelTrain(mode) == mode

\* Line 92: model.train() puts the model in training mode (TRUE).
model_train(mode) == TRUE

\* Line 125: model.eval() puts the model in evaluation mode (FALSE).
model_eval(mode) == FALSE

\* Line 148: the modes sample(model, input_shape) can leave the model in: the
\* sampler is a collaborator that may switch the mode and need not restore it.
SampleModes(mode) == BOOLEAN

\* A faulty epoch body: the scheduler is stepped in the training branch and
\* again after it.
MutSchedulerStep(steps) == steps + 2

\* Line 168: scheduler.step(epoch), counted.
scheduler_step(steps) == steps + 1

\* The calls that update the model's parameters.
StepCalls == {"optimizer.step", "xm.optimizer_step"}

\* The number of parameter updates in a sequence of calls.
Updates(calls) == Cardinality({i \in 1..Len(calls) : calls[i] \in StepCalls})

\* A faulty batch body: the gradients are reset after the backward pass.
MutTrainBatchCalls(use_tpu) == <<"forward", "loss", "backward", "zero_grad", IF use_tpu THEN "xm.optimizer_step" ELSE "optimizer.step">>

\* Lines 95-103: the calls on the model and the optimizer for one training
\* batch, in program order.
TrainBatchCalls(use_tpu) == <<"forward", "loss", "zero_grad", "backward", IF use_tpu THEN "xm.optimizer_step" ELSE "optimizer.step">>

\* Lines 129-130: the calls on the model for one evaluation batch.
TestBatchCalls == <<"forward", "loss">>

\* ------------------------------------------------------------------- Init
NoHist == [passes |-> <<>>, calls |-> <<>>, opt_steps |-> 0, sched_steps |-> 0, flushes |-> 0, nonfinite |-> FALSE, after |-> FALSE]

Init ==
    /\ config \in Configs
    /\ data \in Datasets
    /\ pc = [r \in Replicas |-> "epoch"]
    /\ epoch = [r \in Replicas |-> 0]
    /\ batch_idx = [r \in Replicas |-> 0]
    /\ writes = [r \in Replicas |-> 0]
    /\ new_writes = [r \in Replicas |-> 0]
    /\ train_loss = [r \in Replicas |-> ZeroLoss]
    /\ test_loss = [r \in Replicas |-> ZeroLoss]
    /\ training = [r \in Replicas |-> TRUE]
    /\ err = [r \in Replicas |-> "none"]
    /\ scalars = [r \in Replicas |-> <<>>]
    /\ files = {}
    /\ hist = [r \in Replicas |-> NoHist]
    /\ nans = FALSE

\* ---------------------------------------------------------------- helpers
\* The outcomes of loss_function on one batch: TRUE a finite loss, FALSE a
\* NaN/Inf one, possible unless the losses on these data are all finite.  A
\* run is followed up to and beyond its first non-finite loss; the losses
\* after it are taken to be finite.
LossOutcomes == IF data.finite_losses \/ nans THEN {TRUE} ELSE BOOLEAN

Event(pass, ev, e) == [pass |-> pass, ev |-> ev, epoch |-> e]

\* writer.add_scalar(tag, value, step) by replica r.
Scalar(tag, value, step, r) == [tag |-> tag, value |-> value, step |-> step, rank |-> r, epoch |-> epoch[r]]

\* A write of models/{model_name}_{e}.pth or images/{model_name}_{e}.png.
File(kind, e, r) == [kind |-> kind, epoch |-> e, rank |-> r, path |-> ArtifactPath(config, kind, e)]

\* An uncaught exception ends replica r.
Raise(r, name) == /\ pc' = [pc EXCEPT ![r] = "error"]
                  /\ err' = [err EXCEPT ![r] = name]

\* hist[r].after tells whether replica r performed an effect (an optimizer
\* step, a log entry, a file write) at or after its first non-finite loss.
Counted(r, bad, effect) == hist[r].after \/ (bad /\ effect)

\* Line 100: xm.optimizer_step averages the gradients over all replicas, a
\* collective every replica takes part in: replica r completes its next step
\* only when no other replica is a step behind.
AllReduceReady(r) == config.use_tpu => \A other \in Replicas : hist[other].opt_steps >= hist[r].opt_steps

\* ---------------------------------------------------------------- actions
\* Lines 155-162 and 85-92: the loop takes the next epoch and train_loop
\* starts: accumulator and flush count zeroed, model put in training mode.
EpochBegin(r) ==
    /\ pc[r] = "epoch"
    /\ InRange(epoch[r], config.max_epochs)
    /\ pc' = [pc EXCEPT ![r] = "train"]
    /\ train_loss' = [train_loss EXCEPT ![r] = ZeroLoss]
    /\ new_writes' = [new_writes EXCEPT ![r] = 0]
    /\ batch_idx' = [batch_idx EXCEPT ![r] = 0]
    /\ training' = [training EXCEPT ![r] = model_train(@)]
    /\ hist' = [hist EXCEPT ![r].passes = Append(@, Event("train", "begin", epoch[r]))]
    /\ UNCHANGED <<config, data, epoch, writes, test_loss, err, scalars, files, nans>>

\* Line 155: range(max_epochs) is exhausted; train() returns.
Finish(r) ==
    /\ pc[r] = "epoch"
    /\ ~InRange(epoch[r], config.max_epochs)
    /\ pc' = [pc EXCEPT ![r] = "done"]
    /\ UNCHANGED <<config, data, epoch, batch_idx, writes, new_writes, train_loss, test_loss, training, err, scalars, files, hist, nans>>

\* Lines 93-118: one training batch: forward, loss, zero_grad, backward,
\* optimizer step, accumulate, and the flush when it is due.
TrainBatch(r) ==
    /\ pc[r] = "train"
    /\ batch_idx[r] < Len(train_loader(r))
    /\ AllReduceReady(r)
    /\ \E finite \in LossOutcomes :
        LET input == train_loader(r)[batch_idx[r] + 1]
            acc == AddLoss(train_loss[r], Len(input), finite)
            bad == hist[r].nonfinite \/ ~finite
            calls == TrainBatchCalls(config.use_tpu)
            stepped == [hist[r] EXCEPT !.calls = calls, !.opt_steps = @ + Updates(calls), !.nonfinite = bad]
        IN  /\ nans' = (nans \/ ~finite)
            /\ IF config.print_every = 0
               THEN \* line 105: ZeroDivisionError
                    /\ Raise(r, "ZeroDivisionError")
                    /\ train_loss' = [train_loss EXCEPT ![r] = acc]
                    /\ hist' = [hist EXCEPT ![r] = [stepped EXCEPT !.after = Counted(r, bad, TRUE)]]
                    /\ UNCHANGED <<batch_idx, new_writes, scalars>>
               ELSE IF FlushDue(batch_idx[r], config.print_every)
               THEN LET deno == TrainDenoExamples(config.print_every, config.batch_size)
                        logged == ~config.use_tpu
                    IN  /\ scalars' = IF logged THEN [scalars EXCEPT ![r] = Append(@, Scalar("train/bpd", Bpd(acc, deno), FlushStep(writes[r], new_writes[r]), r))] ELSE scalars
                        /\ train_loss' = [train_loss EXCEPT ![r] = ZeroLoss]
                        /\ new_writes' = [new_writes EXCEPT ![r] = @ + 1]
                        /\ batch_idx' = [batch_idx EXCEPT ![r] = @ + 1]
                        /\ hist' = [hist EXCEPT ![r] = [stepped EXCEPT !.flushes = @ + 1, !.after = Counted(r, bad, TRUE)]]
                        /\ UNCHANGED <<pc, err>>
               ELSE /\ train_loss' = [train_loss EXCEPT ![r] = acc]
                    /\ batch_idx' = [batch_idx EXCEPT ![r] = @ + 1]
                    /\ hist' = [hist EXCEPT ![r] = [stepped EXCEPT !.after = Counted(r, bad, TRUE)]]
                    /\ UNCHANGED <<pc, err, new_writes, scalars>>
    /\ UNCHANGED <<config, data, epoch, writes, test_loss, training, files>>

\* Lines 119-120 and 159-168: the loader is exhausted; "del loss, output"
\* (unbound when no batch was taken), the return, the caller's update of the
\* write index, and scheduler.step(epoch).
TrainLoopReturn(r) ==
    /\ pc[r] = "train"
    /\ batch_idx[r] = Len(train_loader(r))
    /\ IF batch_idx[r] = 0
       THEN /\ Raise(r, "UnboundLocalError")
            /\ UNCHANGED <<writes, hist>>
       ELSE /\ pc' = [pc EXCEPT ![r] = "eval"]
            /\ writes' = [writes EXCEPT ![r] = WritesAfterTrain(config.use_tpu, @, new_writes[r])]
            /\ hist' = [hist EXCEPT ![r].passes = @ \o <<Event("train", "end", epoch[r]), Event("sched", "step", epoch[r])>>, ![r].sched_steps = scheduler_step(@)]
            /\ UNCHANGED err
    /\ UNCHANGED <<config, data, epoch, batch_idx, new_writes, train_loss, test_loss, training, scalars, files, nans>>

\* Lines 169-173 and 123-126: test_loop starts: model put in evaluation
\* mode, accumulator zeroed.
TestLoopBegin(r) ==
    /\ pc[r] = "eval"
    /\ pc' = [pc EXCEPT ![r] = "test"]
    /\ training' = [training EXCEPT ![r] = model_eval(@)]
    /\ test_loss' = [test_loss EXCEPT ![r] = ZeroLoss]
    /\ batch_idx' = [batch_idx EXCEPT ![r] = 0]
    /\ hist' = [hist EXCEPT ![r].passes = Append(@, Event("eval", "begin", epoch[r]))]
    /\ UNCHANGED <<config, data, epoch, writes, new_writes, train_loss, err, scalars, files, nans>>

\* Lines 127-132: one evaluation batch: fetch, forward, loss, accumulate.
TestBatch(r) ==
    /\ pc[r] = "test"
    /\ batch_idx[r] < Len(test_loader(r))
    /\ LET input == test_loader(r)[batch_idx[r] + 1]
       IN  IF ~Loadable(input)
           THEN /\ Raise(r, "IndexError")
                /\ UNCHANGED <<batch_idx, test_loss, hist, nans>>
           ELSE \E finite \in LossOutcomes :
                /\ test_loss' = [test_loss EXCEPT ![r] = AddLoss(@, Len(input), finite)]
                /\ batch_idx' = [batch_idx EXCEPT ![r] = @ + 1]
                /\ hist' = [hist EXCEPT ![r].calls = TestBatchCalls, ![r].opt_steps = @ + Updates(TestBatchCalls), ![r].nonfinite = @ \/ ~finite]
                /\ nans' = (nans \/ ~finite)
                /\ UNCHANGED <<pc, err>>
    /\ UNCHANGED <<config, data, epoch, writes, new_writes, train_loss, training, scalars, files>>

\* Lines 134-141: the loader is exhausted; the denominator is computed from
\* batch_idx (unbound when no batch was taken) and test/bpd is logged.
TestLog(r) ==
    /\ pc[r] = "test"
    /\ batch_idx[r] = Len(test_loader(r))
    /\ IF batch_idx[r] = 0
       THEN /\ Raise(r, "UnboundLocalError")
            /\ UNCHANGED <<scalars, hist>>
       ELSE LET deno == TestDenoExamples(batch_idx[r], config.batch_size)
            IN  /\ scalars' = [scalars EXCEPT ![r] = Append(@, Scalar("test/bpd", Bpd(test_loss[r], deno), writes[r], r))]
                /\ hist' = [hist EXCEPT ![r].after = Counted(r, hist[r].nonfinite, TRUE)]
                /\ pc' = [pc EXCEPT ![r] = "save"]
                /\ UNCHANGED err
    /\ UNCHANGED <<config, data, epoch, batch_idx, writes, new_writes, train_loss, test_loss, training, files, nans>>

\* Lines 143-152 and 174: the checkpoint trigger; when it is due, torch.save
\* of the parameters, sample, and save_image; then test_loop returns, the
\* write index is incremented and the loop moves to the next epoch.
Checkpoint(r) ==
    /\ pc[r] = "save"
    /\ IF config.save_interval = 0
       THEN \* line 143: ZeroDivisionError
            /\ Raise(r, "ZeroDivisionError")
            /\ UNCHANGED <<files, hist, writes, epoch, training>>
       ELSE LET due == SaveDue(epoch[r], config.save_interval)
            IN  /\ files' = IF due THEN files \cup {File("pth", epoch[r], r), File("png", epoch[r], r)} ELSE files
                /\ \E mode \in (IF due THEN SampleModes(training[r]) ELSE {training[r]}) : training' = [training EXCEPT ![r] = mode]
                /\ hist' = [hist EXCEPT ![r].after = Counted(r, hist[r].nonfinite, due), ![r].passes = Append(@, Event("eval", "end", epoch[r]))]
                /\ writes' = [writes EXCEPT ![r] = @ + 1]
                /\ epoch' = [epoch EXCEPT ![r] = @ + 1]
                /\ pc' = [pc EXCEPT ![r] = "epoch"]
                /\ UNCHANGED err
    /\ UNCHANGED <<config, data, batch_idx, new_writes, train_loss, test_loss, scalars, nans>>

\* Lines 186-187: xmp.spawn joins its processes; when one of them has died
\* of an exception the others are terminated, at whatever point they reached.
Terminate(r) ==
    /\ config.use_tpu
    /\ pc[r] \notin {"done", "error", "killed"}
    /\ \E other \in Replicas : other # r /\ pc[other] = "error"
    /\ pc' = [pc EXCEPT ![r] = "killed"]
    /\ UNCHANGED <<config, data, epoch, batch_idx, writes, new_writes, train_loss, test_loss, training, err, scalars, files, hist, nans>>

Next ==
    \/ \E r \in Replicas : EpochBegin(r)
    \/ \E r \in Replicas : Finish(r)
    \/ \E r \in Replicas : TrainBatch(r)
    \/ \E r \in Replicas : TrainLoopReturn(r)
    \/ \E r \in Replicas : TestLoopBegin(r)
    \/ \E r \in Replicas : TestBatch(r)
    \/ \E r \in Replicas : TestLog(r)
    \/ \E r \in Replicas : Checkpoint(r)
    \/ \E r \in Replicas : Terminate(r)

Spec == Init /\ [][Next]_vars

\* The runs in which loss_function returns finite losses only.  No branch of
\* train(), train_loop() or test_loop() reads a loss, so these runs take
\* every path through the loop that the runs of Spec take.
InitFinite == Init /\ data.finite_losses

SpecFinite == InitFinite /\ [][Next]_vars

\* ------------------------------------------------------------ properties
\* The add_scalar calls of replica r under one tag, in order.
Tagged(r, tag) == SelectSeq(scalars[r], LAMBDA s : s.tag = tag)

\* The begin/end events of replica r's training and evaluation passes.
PassEvents(r) == SelectSeq(hist[r].passes, LAMBDA ev : ev.pass # "sched")

\* The i-th pass event of a run that alternates training and evaluation.
ExpectedEvent(i) == Event(IF ((i - 1) % 4) < 2 THEN "train" ELSE "eval", IF (i - 1) % 2 = 0 THEN "begin" ELSE "end", (i - 1) \div 4)

\* C1: a replica's passes are, in order, train(0), eval(0), train(1),
\* eval(1), ...: each pass ends before the next begins, and a run that ends
\* without error has made exactly max_epochs training passes and max_epochs
\* evaluation passes.
C1_Alternation ==
    \A r \in Replicas :
        LET p == PassEvents(r)
        IN  /\ Len(p) <= 4 * config.max_epochs
            /\ \A i \in 1..Len(p) : p[i] = ExpectedEvent(i)
            /\ pc[r] = "done" => Len(p) = 4 * config.max_epochs

C1_Witness ==
    \E r \in Replicas : pc[r] = "done" /\ config.max_epochs = 2 /\ Len(PassEvents(r)) = 8

\* C2: for save_interval k >= 1, a replica writes the checkpoint and the
\* sample image of epoch e exactly when (e + 1) mod k = 0: no file is ever
\* written for another epoch, and every completed epoch with
\* (e + 1) mod k = 0 has both files.
C2_CheckpointCadence ==
    config.save_interval >= 1 =>
        /\ \A f \in files : f.epoch < config.max_epochs /\ (f.epoch + 1) % config.save_interval = 0
        /\ \A r \in Replicas : \A e \in 0..(epoch[r] - 1) :
            /\ File("pth", e, r) \in files <=> (e + 1) % config.save_interval = 0
            /\ File("png", e, r) \in files <=> (e + 1) % config.save_interval = 0

C2_Witness ==
    \E r \in Replicas :
        /\ pc[r] = "done" /\ config.save_interval = 2 /\ config.max_epochs = 2
        /\ File("pth", 1, r) \in files /\ File("png", 1, r) \in files
        /\ File("pth", 0, r) \notin files /\ File("png", 0, r) \notin files

\* C3: at every epoch boundary the write index of a replica equals the
\* number of training flushes it has performed plus the number of
\* evaluation passes it has completed, in both device modes.
C3_WritesCountFlushesAndEvals ==
    \A r \in Replicas : pc[r] \in {"epoch", "done"} => writes[r] = hist[r].flushes + epoch[r]

\* The scenario of C4: single device, max_epochs=1, save_interval=1,
\* print_every=2, 4 training batches, 2 test batches, run to its end.
C4_Scenario ==
    /\ ~config.use_tpu
    /\ config.max_epochs = 1 /\ config.save_interval = 1 /\ config.print_every = 2
    /\ Len(train_loader(0)) = 4 /\ Len(test_loader(0)) = 2
    /\ pc[0] = "done"

C4_Artifacts ==
    /\ Cardinality({f \in files : f.kind = "pth"}) = 1
    /\ Cardinality({f \in files : f.kind = "png"}) = 1
    /\ Len(Tagged(0, "train/bpd")) = 2
    /\ Len(Tagged(0, "test/bpd")) = 1

\* C4 as stated: the scenario ends with one checkpoint, one sample image,
\* two training flush entries, one test entry, and the write index at 2.
C4_WritesEndAtTwo == C4_Scenario => (C4_Artifacts /\ writes[0] = 2)

\* C4 as amended: the same artifacts, and the write index ends at 3 (two
\* flushes plus one evaluation pass; the test entry is logged at index 2).
C4_WritesEndAtThree ==
    C4_Scenario => (C4_Artifacts /\ writes[0] = 3 /\ Tagged(0, "test/bpd")[1].step = 2)

C4_Witness == C4_Scenario /\ writes[0] = 3

\* C5: the example count in the denominator of every logged test/bpd value
\* is the number of examples whose losses were summed into its numerator.
C5_TestDenoCountsExamples ==
    \A r \in Replicas : \A i \in 1..Len(scalars[r]) :
        scalars[r][i].tag = "test/bpd" => scalars[r][i].value.examples = scalars[r][i].value.loss.examples

\* C6: the evaluation pass never divides by a zero example count and never
\* dies of an unrelated error where the test set is too small: every logged
\* test/bpd value has a positive example count, and no replica is ended
\* inside test_loop by the unbound batch_idx.
C6_NoZeroDenominator ==
    \A r \in Replicas :
        /\ \A i \in 1..Len(scalars[r]) : scalars[r][i].tag = "test/bpd" => scalars[r][i].value.examples > 0
        /\ ~(pc[r] = "error" /\ err[r] = "UnboundLocalError" /\ ~training[r])

\* C7: a test set delivered as n full batches of size B (batch sizes
\* configured as B) and the same examples delivered as n/2 batches of size
\* 2B (batch sizes configured as 2B) get the same denominator.
C7_ScaleInvariantDeno ==
    \A r \in Replicas : \A i \in 1..Len(scalars[r]) :
        LET s == scalars[r][i]
            n == Len(test_loader(r))
        IN  (/\ s.tag = "test/bpd"
             /\ config.batch_size = config.test_batch_size
             /\ n % 2 = 0
             /\ s.value.loss.examples = n * config.test_batch_size)
            => s.value.examples = TestDenoExamples(n \div 2, 2 * config.batch_size)

\* C8: no two different replicas write the same log tag and index, nor the
\* same checkpoint or image file.
C8_SingleWriter ==
    /\ \A f \in files : \A g \in files : (f.kind = g.kind /\ f.epoch = g.epoch) => f.rank = g.rank
    /\ \A r1 \in Replicas : \A r2 \in Replicas : r1 # r2 =>
        \A i \in 1..Len(scalars[r1]) : \A j \in 1..Len(scalars[r2]) :
            ~(scalars[r1][i].tag = scalars[r2][j].tag /\ scalars[r1][i].step = scalars[r2][j].step)

\* The flushes of a training pass of nb batches.
FlushesPerPass(nb, print_every) == Cardinality({i \in 0..(nb - 1) : FlushDue(i, print_every)})

\* The write index at which the single-device path (lines 162-163, 174)
\* logs epoch e's test/bpd when every training pass makes f flushes.
RECURSIVE SingleDeviceTestStep(_, _)
SingleDeviceTestStep(e, f) == IF e = 0 THEN WritesAfterTrain(FALSE, 0, f) ELSE WritesAfterTrain(FALSE, SingleDeviceTestStep(e - 1, f) + 1, f)

\* C9: in either device mode, a replica logs epoch e's test/bpd at the write
\* index the single-device arithmetic gives for its batch counts, and ends
\* the epoch one above it.
C9_SameCadenceArithmetic ==
    \A r \in Replicas :
        LET f == FlushesPerPass(Len(train_loader(r)), config.print_every)
            t == Tagged(r, "test/bpd")
        IN  /\ \A i \in 1..Len(t) : t[i].step = SingleDeviceTestStep(t[i].epoch, f)
            /\ (pc[r] \in {"epoch", "done"} /\ epoch[r] > 0) => writes[r] = SingleDeviceTestStep(epoch[r] - 1, f) + 1

\* C10: a replica that has produced a non-finite loss is ended by it, and
\* has performed no optimizer step, log entry or file write since.
C10_AbortOnNonFiniteLoss ==
    \A r \in Replicas : hist[r].nonfinite => (pc[r] = "error" /\ ~hist[r].after)

\* C11: with a non-positive print_every or save_interval the run fails at
\* startup: no replica forwards a training batch and applies the optimizer
\* step for it, and none writes a log entry.
C11_CadenceCheckedAtStartup ==
    (config.print_every <= 0 \/ config.save_interval <= 0) =>
        \A r \in Replicas : hist[r].opt_steps = 0 /\ scalars[r] = <<>>

\* C12: the example count in the denominator of every logged train/bpd
\* value is the number of examples whose losses were summed into its
\* numerator since the previous flush.
C12_TrainDenoCountsExamples ==
    \A r \in Replicas : \A i \in 1..Len(scalars[r]) :
        scalars[r][i].tag = "train/bpd" => scalars[r][i].value.examples = scalars[r][i].value.loss.examples

\* The number of indices replica r's evaluation pass is given.
TestShardLen(r) == Len(test_sampler(r))

\* C13: in multi-replica mode, a replica in its evaluation pass iterates
\* indices of the test dataset only, 1/num_cores of it (rounded up), and a
\* replica in its training pass iterates 1/num_cores of the training
\* dataset, all of them indices of it.
C13_ShardsOfTheLoadedDataset ==
    \A r \in Replicas :
        /\ (config.use_tpu /\ pc[r] = "test") =>
            /\ \A j \in 1..TestShardLen(r) : test_sampler(r)[j] < data.test_len
            /\ TestShardLen(r) = (data.test_len + num_cores - 1) \div num_cores
        /\ (config.use_tpu /\ pc[r] = "train") =>
            /\ \A j \in 1..Len(train_sampler(r)) : train_sampler(r)[j] < data.train_len
            /\ Len(train_sampler(r)) = (data.train_len + num_cores - 1) \div num_cores

\* Replica r processes a training batch in this step: its batch index
\* advances within the training pass, or the flush test of the batch raises.
TrainBatchTaken(r) == pc[r] = "train" /\ (batch_idx'[r] = batch_idx[r] + 1 \/ err'[r] = "ZeroDivisionError")

\* The calls contain exactly one parameter update, after a backward pass
\* that itself comes after a gradient reset.
OneUpdateAfterGrad(calls) ==
    /\ Updates(calls) = 1
    /\ \E i, j, k \in 1..Len(calls) : i < j /\ j < k /\ calls[i] = "zero_grad" /\ calls[j] = "backward" /\ calls[k] \in StepCalls

\* C14: the parameters change only by the optimizer step of a training
\* batch: a step that processes a training batch applies exactly one update,
\* after zero_grad and then backward; every other step (evaluation batch,
\* logging, checkpoint and sampling, scheduler step) leaves the number of
\* updates applied as it was.
C14_ParamsChangeOnlyByTrainingStep ==
    [][\A r \in Replicas :
        IF TrainBatchTaken(r)
        THEN hist'[r].opt_steps = hist[r].opt_steps + 1 /\ OneUpdateAfterGrad(hist'[r].calls)
        ELSE hist'[r].opt_steps = hist[r].opt_steps]_vars

\* A replica trains again after an evaluation pass that wrote a checkpoint.
C14_Witness ==
    \E r \in Replicas : pc[r] = "train" /\ batch_idx[r] >= 1 /\ hist[r].opt_steps >= 2 /\ hist[r].calls = TrainBatchCalls(config.use_tpu) /\ \E f \in files : f.rank = r

\* A run with configuration c writes the artifacts of epoch e.
WritesArtifacts(c, e) == InRange(e, c.max_epochs) /\ c.save_interval # 0 /\ SaveDue(e, c.save_interval)

\* C15: the path of a checkpoint or image identifies the configuration and
\* the epoch it was written for: no write of a run with another
\* configuration, and no write for another epoch, goes to the path of a file
\* this run has written.
C15_PathIdentifiesConfigAndEpoch ==
    \A f \in files : \A c \in RunConfigs : \A e \in 0..(MaxEpochs - 1) :
        (WritesArtifacts(c, e) /\ ArtifactPath(c, f.kind, e) = f.path) => (c = config /\ e = f.epoch)

\* C16: a replica that forwards training batches has the model in training
\* mode, also in the epochs after one that checkpointed and sampled; a
\* replica that forwards evaluation batches has it in evaluation mode.
C16_ModeMatchesPass ==
    \A r \in Replicas :
        /\ pc[r] = "train" => training[r]
        /\ pc[r] = "test" => ~training[r]

\* A replica is forwarding training batches in the epoch after one in which
\* it checkpointed and sampled.
C16_Witness ==
    \E r \in Replicas : pc[r] = "train" /\ epoch[r] >= 1 /\ batch_idx[r] >= 1 /\ training[r] /\ File("png", epoch[r] - 1, r) \in files

\* The positions in replica r's history of the events of one kind.
EventsAt(r, pass, ev) == {i \in 1..Len(hist[r].passes) : hist[r].passes[i].pass = pass /\ hist[r].passes[i].ev = ev}

\* C17: on every replica the scheduler is stepped once per epoch, right
\* after the end of the epoch's training pass and before the beginning of
\* its evaluation pass, never inside a pass; the number of steps is the
\* number of training passes completed, E between epochs after E epochs.
C17_SchedulerSteppedBetweenPasses ==
    \A r \in Replicas :
        LET ev == hist[r].passes
        IN  /\ \A i \in EventsAt(r, "sched", "step") :
                /\ i > 1 /\ ev[i - 1] = Event("train", "end", ev[i].epoch)
                /\ i < Len(ev) => ev[i + 1] = Event("eval", "begin", ev[i].epoch)
            /\ \A i \in EventsAt(r, "train", "end") : i < Len(ev) /\ ev[i + 1] = Event("sched", "step", ev[i].epoch)
            /\ \A i \in EventsAt(r, "eval", "begin") : ev[i - 1] = Event("sched", "step", ev[i].epoch)
            /\ hist[r].sched_steps = Cardinality(EventsAt(r, "sched", "step"))
            /\ hist[r].sched_steps = Cardinality(EventsAt(r, "train", "end"))
            /\ pc[r] \in {"epoch", "done"} => hist[r].sched_steps = epoch[r]
            /\ pc[r] \in {"eval", "test", "save"} => hist[r].sched_steps = epoch[r] + 1
            /\ pc[r] = "done" => hist[r].sched_steps = config.max_epochs

\* A run of two epochs has ended: two scheduler steps.
C17_Witness ==
    \E r \in Replicas : pc[r] = "done" /\ config.max_epochs = 2 /\ hist[r].sched_steps = 2 /\ Cardinality(EventsAt(r, "eval", "end")) = 2

\* The write indices of a sequence of log entries are strictly increasing.
StrictlyIncreasing(entries) == \A i, j \in 1..Len(entries) : i < j => entries[i].step < entries[j].step

\* C18: on a single device the write indices of the train/bpd entries are
\* strictly increasing over the run, so are those of the test/bpd entries,
\* and no train/bpd entry has the index of a test/bpd entry.
C18_WriteIndicesNeverReused ==
    ~config.use_tpu =>
        LET tr == Tagged(0, "train/bpd")
            te == Tagged(0, "test/bpd")
        IN  /\ StrictlyIncreasing(tr)
            /\ StrictlyIncreasing(te)
            /\ \A i \in 1..Len(tr) : \A j \in 1..Len(te) : tr[i].step # te[j].step

\* A single-device run of two epochs with two flushes per pass has ended.
C18_Witness ==
    /\ ~config.use_tpu
    /\ pc[0] = "done"
    /\ Len(Tagged(0, "train/bpd")) = 4
    /\ Len(Tagged(0, "test/bpd")) = 2

\* The number of examples in batches lo..hi of replica r's training loader.
RECURSIVE ExamplesIn(_, _, _)
ExamplesIn(r, lo, hi) == IF hi < lo THEN 0 ELSE Len(train_loader(r)[hi]) + ExamplesIn(r, lo, hi - 1)

\* The state of a training pass of replica r after k batches, with flushes
\* due after every p-th batch: k \div p flushes made, and the accumulator
\* holding the batches after the last flush (zero right after a flush).
FlushedEvery(r, k, p) ==
    /\ new_writes[r] = k \div p
    /\ train_loss[r].examples = ExamplesIn(r, (k \div p) * p + 1, k)
    /\ k % p = 0 => train_loss[r] = ZeroLoss

\* C19: in a training pass of n batches with print_every = p >= 1 the
\* flushes are made exactly after batches p, 2p, ..., (n \div p) * p: after
\* k batches k \div p flushes have been made and the accumulator holds the
\* losses of the batches since the last of them only, zero right after a
\* flush; the pass returns with n \div p flushes and the n % p trailing
\* batches as the residual train_loss; on a single device the j-th logged
\* flush of a pass sums batches (j - 1) * p + 1 .. j * p.
C19_FlushEveryPrintEvery ==
    config.print_every >= 1 =>
        \A r \in Replicas :
            LET p == config.print_every
                n == Len(train_loader(r))
                tr == Tagged(r, "train/bpd")
            IN  /\ pc[r] = "train" => FlushedEvery(r, batch_idx[r], p)
                /\ pc[r] \in {"eval", "test", "save"} => FlushedEvery(r, n, p)
                /\ \A j \in 1..Len(tr) :
                    LET k == ((j - 1) % (n \div p)) + 1
                    IN  /\ tr[j].epoch = (j - 1) \div (n \div p)
                        /\ tr[j].value.loss.examples = ExamplesIn(r, (k - 1) * p + 1, k * p)

\* A pass of three batches with print_every = 2 has returned: one flush, and
\* the third batch as the residual.
C19_Witness ==
    \E r \in Replicas :
        /\ pc[r] = "eval" /\ config.print_every = 2 /\ Len(train_loader(r)) = 3
        /\ new_writes[r] = 1 /\ train_loss[r].examples = Len(train_loader(r)[3])
=============================================================================
